---- MODULE Spec2Model ----
(***************************************************************************)
(* Model of the NVMe device-access shim (src/ffi/c/nvme_shim.c):           *)
(*   ochrance_nvme_read_smart, ochrance_nvme_read_block and                *)
(*   ochrance_nvme_write_block, each an open / one system call / close     *)
(*   sequence run by a calling thread, together with the part of the       *)
(*   kernel the three functions talk to (descriptor table, positioned      *)
(*   transfers on a backing store, the admin ioctl, errno).                *)
(*                                                                         *)
(* 64-bit quantities (lba, block_size, the byte offset) are kept at their  *)
(* full width as eight base-256 limbs, least significant first, so that    *)
(* the multiplication at lines 60 and 78 wraps exactly as uint64_t does.   *)
(***************************************************************************)
EXTENDS Integers, Sequences, FiniteSets, TLC

(* ------------------------------ bounds -------------------------------- *)

\* Size of the backing store of the existing device, in bytes.
DevBytes == 2

\* Values a byte of the store or of a caller's buffer can take.
Byte == {0, 1}

\* The calling threads.
Callers == {"t1", "t2"}

(* --------------------------- errno values ----------------------------- *)

ENOENT == 2
EINTR  == 4
EIO    == 5
EBADF  == 9
EACCES == 13
EFAULT == 14
EINVAL == 22
ENOTTY == 25
ENOSPC == 28
EROFS  == 30

(* ------------------------ 64-bit arithmetic --------------------------- *)

Limbs == 8
Base  == 256

\* The uint64_t holding a small non-negative integer (below 2^31).
U64(k) ==
  [i \in 1..Limbs |->
     IF i = 1 THEN k % Base
     ELSE IF i = 2 THEN (k \div Base) % Base
     ELSE IF i = 3 THEN (k \div (Base * Base)) % Base
     ELSE IF i = 4 THEN (k \div (Base * Base * Base)) % Base
     ELSE 0]

\* The uint64_t 2^e, 0 <= e < 64.
Pow2(e) == [i \in 1..Limbs |-> IF i = (e \div 8) + 1 THEN 2 ^ (e % 8) ELSE 0]

RECURSIVE ColSum(_, _, _, _)
\* Sum of a[i] * b[k + 1 - i] over the limbs i..Limbs that take part in column k.
ColSum(a, b, k, i) ==
  IF i > Limbs THEN 0
  ELSE (IF k + 1 - i >= 1 /\ k + 1 - i <= Limbs THEN a[i] * b[k + 1 - i] ELSE 0)
       + ColSum(a, b, k, i + 1)

RECURSIVE MulCarry(_, _, _, _)
\* Schoolbook product of a and b from column k on, with incoming carry.
MulCarry(a, b, k, carry) ==
  IF k > 2 * Limbs THEN <<>>
  ELSE LET s == ColSum(a, b, k, 1) + carry
       IN  <<s % Base>> \o MulCarry(a, b, k + 1, s \div Base)

\* The mathematical product of two 64-bit values: sixteen limbs, never wrapped.
MulFull(a, b) == MulCarry(a, b, 1, 0)

\* uint64_t multiplication: the product modulo 2^64.
MulU64(a, b) == SubSeq(MulFull(a, b), 1, Limbs)

RECURSIVE AddCarry(_, _, _, _)
AddCarry(a, b, i, carry) ==
  IF i > Limbs THEN <<>>
  ELSE LET t == a[i] + b[i] + carry
       IN  <<t % Base>> \o AddCarry(a, b, i + 1, t \div Base)

\* uint64_t addition: the sum modulo 2^64.
AddU64(a, b) == AddCarry(a, b, 1, 0)

\* A 64-bit value widened to sixteen limbs.
Widen(a) == [i \in 1..(2 * Limbs) |-> IF i <= Limbs THEN a[i] ELSE 0]

\* The value read as the signed 64-bit off_t is negative.
IsNeg(a) == a[Limbs] >= Base \div 2

\* The value fits in 31 bits, so it can be used as an index into the store.
IsSmall(a) == a[4] < Base \div 2 /\ \A i \in 5..Limbs : a[i] = 0

ToInt(a) == a[1] + Base * a[2] + Base * Base * a[3] + Base * Base * Base * a[4]

Min(x, y) == IF x <= y THEN x ELSE y

(* ----------------------- pointers and buffers ------------------------- *)

\* Device paths a caller can pass: the null pointer, a path that names no
\* device, and the path of the one existing device.
NullPath == "NULL"
Missing  == "/dev/missing"
Device   == "/dev/nvme0n1"

\* A caller's buffer: the null pointer, or memory holding bytes.  Only the
\* first Tracked(block_size) bytes are kept: no transfer on a store of
\* DevBytes bytes can move more, so the rest of the buffer is never touched.
NullBuf == [null |-> TRUE, bytes |-> <<>>]
Buf(b)  == [null |-> FALSE, bytes |-> b]
Tracked(block_size) == Min(block_size, DevBytes)

VARIABLES
  call,   \* call[c]: the activation record of the call thread c is running
  dev,    \* contents of the backing store of Device
  fdtab,  \* the process's descriptor table
  rt      \* observer: the last read / write-back / re-read sequence seen

vars == <<call, dev, fdtab, rt>>

(* ------------------------------ kernel -------------------------------- *)

Fds == 3..(2 + Cardinality(Callers))

NoFile == [owner |-> "none", flags |-> "none"]

FdOpen(tab, fd) == fd \in Fds /\ tab[fd] # NoFile

FreeFds(tab) == {f \in Fds : tab[f] = NoFile}

\* open(2): the lowest free descriptor, or -1 with errno set.  A null path
\* faults in the kernel's copy of the path name; a read-only target rejects
\* an open for writing.
OpenOutcomes(tab, device_path, flags) ==
  LET fail(e) == [fd |-> -1, errno |-> e] IN
  IF device_path = NullPath THEN {fail(EFAULT)}
  ELSE IF device_path = Missing THEN {fail(ENOENT)}
  ELSE {fail(EACCES)}
       \cup (IF flags = "O_WRONLY" THEN {fail(EROFS)} ELSE {})
       \cup (IF FreeFds(tab) = {} THEN {}
             ELSE {[fd |-> CHOOSE f \in FreeFds(tab) : \A g \in FreeFds(tab) : f <= g,
                    errno |-> 0]})

\* Bytes a transfer of count bytes at offset can move on the store.
Avail(offset, count) ==
  IF IsSmall(offset) /\ ToInt(offset) < DevBytes
    THEN Min(count, DevBytes - ToInt(offset))
    ELSE 0

\* pread(2): -1 with errno, or the number of bytes moved (possibly short)
\* and the bytes themselves.
PreadOutcomes(tab, fd, count, offset, store) ==
  LET fail(e) == [n |-> -1, errno |-> e, data |-> <<>>] IN
  IF ~FdOpen(tab, fd) \/ tab[fd].flags # "O_RDONLY" THEN {fail(EBADF)}
  ELSE IF IsNeg(offset) THEN {fail(EINVAL)}
  ELSE {fail(EIO)}
       \cup {[n |-> k, errno |-> 0,
              data |-> IF k = 0 THEN <<>>
                       ELSE SubSeq(store, ToInt(offset) + 1, ToInt(offset) + k)]
             : k \in 0..Avail(offset, count)}

\* pwrite(2): -1 with errno, or the number of bytes moved (possibly short)
\* and the store after the transfer.
PwriteOutcomes(tab, fd, bytes, count, offset, store) ==
  LET fail(e) == [n |-> -1, errno |-> e, store |-> store] IN
  IF ~FdOpen(tab, fd) \/ tab[fd].flags # "O_WRONLY" THEN {fail(EBADF)}
  ELSE IF IsNeg(offset) THEN {fail(EINVAL)}
  ELSE IF Avail(offset, count) = 0 THEN {fail(ENOSPC)}
  ELSE {fail(EIO), fail(EROFS)}
       \cup {[n |-> k, errno |-> 0,
              store |-> [i \in 1..DevBytes |->
                           IF i > ToInt(offset) /\ i <= ToInt(offset) + k
                             THEN bytes[i - ToInt(offset)]
                             ELSE store[i]]]
             : k \in 1..Avail(offset, count)}

\* ioctl(NVME_IOCTL_ADMIN_CMD): 0 with the log page written, -1 with errno,
\* or the positive NVMe status the device completed the command with.
LogPage == <<1>>
IoctlOutcomes(tab, fd, info) ==
  LET fail(e) == [ret |-> -1, errno |-> e, info |-> info] IN
  IF ~FdOpen(tab, fd) THEN {fail(EBADF)}
  ELSE {fail(EIO), fail(ENOTTY),
        [ret |-> 2, errno |-> 0, info |-> info],
        [ret |-> 0, errno |-> 0, info |-> Buf(LogPage)]}

\* close(2): the descriptor is released whatever close returns; a failing
\* close sets errno.
CloseOutcomes(tab, fd) ==
  IF ~FdOpen(tab, fd) THEN {[r |-> -1, errno |-> EBADF]}
  ELSE {[r |-> 0, errno |-> 0], [r |-> -1, errno |-> EINTR], [r |-> -1, errno |-> EIO]}

Release(tab, fd) == IF FdOpen(tab, fd) THEN [tab EXCEPT ![fd] = NoFile] ELSE tab

(* --------------------- the shim's own decisions ----------------------- *)

\* nvme_shim.c:31
SmartArgsInvalid(info) == info.null

\* nvme_shim.c:23 (open_nvme)
PathInvalid(device_path) == device_path = NullPath

\* Variant: the block_size == 0 test left out.
ReadArgsInvalidNoSize(buffer, block_size) == buffer.null

\* nvme_shim.c:55
ReadArgsInvalid(buffer, block_size) == buffer.null \/ block_size = 0

\* nvme_shim.c:73
WriteArgsInvalid(buffer, block_size) == buffer.null \/ block_size = 0

\* nvme_shim.c:25, 34, 58, 76: fd < 0
OpenFailed(fd) == fd < 0

\* Variant: errno returned without the sign change.
SmartOpenStatusPositive(errno) == errno

\* nvme_shim.c:25 and 34: open_nvme hands back -errno, read_smart returns it.
SmartOpenStatus(errno) == -errno

\* nvme_shim.c:58
ReadOpenStatus(errno) == -errno

\* nvme_shim.c:76
WriteOpenStatus(errno) == -errno

\* nvme_shim.c:60: off_t offset = (off_t)(lba * block_size), the product
\* taken in uint64_t and its bit pattern reinterpreted as off_t.
ReadOffset(lba, block_size) == MulU64(lba, U64(block_size))

\* Variant: lba + block_size written for lba * block_size.
WriteOffsetSum(lba, block_size) == AddU64(lba, U64(block_size))

\* nvme_shim.c:78
WriteOffset(lba, block_size) == MulU64(lba, U64(block_size))

\* Variant: the descriptor closed only after a transfer that did not fail.
ReadClosesOnSuccess(n) == n >= 0

\* nvme_shim.c:46, 62, 80: close(fd) is reached whatever the system call
\* before it returned.
SmartCloses(ret) == TRUE
ReadCloses(n)    == TRUE
WriteCloses(n)   == TRUE

\* nvme_shim.c:48
SmartStatus(ret, errno) == IF ret < 0 THEN -errno ELSE 0

\* Variant: the short-transfer test left out.
ReadStatusNoShort(n, block_size, errno) == IF n < 0 THEN -errno ELSE 0

\* nvme_shim.c:64-66
ReadStatus(n, block_size, errno) ==
  IF n < 0 THEN -errno
  ELSE IF n # block_size THEN -EIO
  ELSE 0

\* nvme_shim.c:82-84
WriteStatus(n, block_size, errno) ==
  IF n < 0 THEN -errno
  ELSE IF n # block_size THEN -EIO
  ELSE 0

(* ------------------------------- state -------------------------------- *)

\* The activation record of a thread that is not inside the shim.  errno is
\* per thread; the shim reads it only after a system call that has set it,
\* so its value on entry is not kept.  buf0, cause, opens, xfers, closes and
\* closed are observations of the call (the caller's buffer on entry, the
\* errno the failing open / transfer / ioctl set, the system calls issued,
\* the owner of the descriptor handed to close).
IdleFrame ==
  [pc |-> "idle", op |-> "none", device_path |-> NullPath, lba |-> U64(0),
   buffer |-> NullBuf, block_size |-> 0, buf0 |-> NullBuf,
   fd |-> -1, offset |-> U64(0), n |-> 0, ret |-> 0, errno |-> 0,
   status |-> 0, cause |-> 0, opens |-> 0, xfers |-> 0, closes |-> 0,
   closed |-> "none"]

Entry(op, device_path, lba, buffer, block_size) ==
  [IdleFrame EXCEPT !.op = op, !.device_path = device_path, !.lba = lba,
                    !.buffer = buffer, !.buf0 = buffer, !.block_size = block_size]

NoTrip ==
  [stage |-> 0, who |-> "none", device_path |-> NullPath, lba |-> U64(0),
   block_size |-> 0, first |-> <<>>, last |-> <<>>, dev0 |-> <<>>]

Init ==
  /\ call = [c \in Callers |-> IdleFrame]
  /\ dev \in [1..DevBytes -> Byte]
  /\ fdtab = [f \in Fds |-> NoFile]
  /\ rt = NoTrip

SameBlock(f) ==
  /\ rt.who = f.who
  /\ rt.device_path = f.device_path
  /\ rt.lba = f.lba
  /\ rt.block_size = f.block_size

\* The observer when thread c enters the call of frame f: the sequence goes
\* on only if c now writes back the bytes it has just read to the block it
\* read them from, or reads that block again after writing them back; any
\* other call, by any thread, ends it.
TripAtEntry(c, f) ==
  LET k == [who |-> c, device_path |-> f.device_path, lba |-> f.lba,
            block_size |-> f.block_size]
  IN IF /\ SameBlock(k)
        /\ \/ rt.stage = 1 /\ f.op = "write_block" /\ f.buffer = Buf(rt.first)
           \/ rt.stage = 2 /\ f.op = "read_block"
       THEN rt
       ELSE NoTrip

\* The observer after a pread by thread c that moved n bytes (data).
TripAfterRead(c, f, n, data) ==
  LET k == [who |-> c, device_path |-> f.device_path, lba |-> f.lba,
            block_size |-> f.block_size]
  IN IF n # f.block_size THEN NoTrip
     ELSE IF rt.stage = 2 /\ SameBlock(k) THEN [rt EXCEPT !.stage = 3, !.last = data]
     ELSE [stage |-> 1, who |-> c, device_path |-> f.device_path, lba |-> f.lba,
           block_size |-> f.block_size, first |-> data, last |-> <<>>, dev0 |-> dev]

\* The observer after a pwrite by thread c that moved n bytes of f.buffer.
TripAfterWrite(c, f, n) ==
  LET k == [who |-> c, device_path |-> f.device_path, lba |-> f.lba,
            block_size |-> f.block_size]
  IN IF n = f.block_size /\ rt.stage = 1 /\ SameBlock(k)
        /\ SubSeq(f.buffer.bytes, 1, n) = rt.first
       THEN [rt EXCEPT !.stage = 2]
       ELSE NoTrip

(* ------------------------------ actions ------------------------------- *)

\* The frame after open returned o (lines 24-26, 33-34, 57-58, 75-76).
AfterOpen(f, o, status) ==
  IF OpenFailed(o.fd)
    THEN [f EXCEPT !.pc = "done", !.fd = o.fd, !.errno = o.errno, !.cause = o.errno,
                   !.status = status, !.opens = 1]
    ELSE [f EXCEPT !.pc = "xfer", !.fd = o.fd, !.opens = 1]

Install(tab, c, o, flags) ==
  IF o.fd \in Fds THEN [tab EXCEPT ![o.fd] = [owner |-> c, flags |-> flags]] ELSE tab

\* ochrance_nvme_read_smart, lines 31-34 with open_nvme, lines 23-26.
ReadSmartCall(c, device_path, info) ==
  /\ call[c].pc = "idle"
  /\ LET f == Entry("read_smart", device_path, U64(0), info, 0) IN
     IF SmartArgsInvalid(info) \/ PathInvalid(device_path)
       THEN /\ call' = [call EXCEPT ![c] = [f EXCEPT !.pc = "done", !.status = -EINVAL]]
            /\ rt' = TripAtEntry(c, f)
            /\ UNCHANGED <<dev, fdtab>>
       ELSE \E o \in OpenOutcomes(fdtab, device_path, "O_RDONLY") :
              /\ call' = [call EXCEPT ![c] = AfterOpen(f, o, SmartOpenStatus(o.errno))]
              /\ fdtab' = Install(fdtab, c, o, "O_RDONLY")
              /\ rt' = TripAtEntry(c, f)
              /\ UNCHANGED dev

\* ochrance_nvme_read_block, lines 55-58.
ReadBlockCall(c, device_path, lba, buffer, block_size) ==
  /\ call[c].pc = "idle"
  /\ LET f == Entry("read_block", device_path, lba, buffer, block_size) IN
     IF ReadArgsInvalid(buffer, block_size)
       THEN /\ call' = [call EXCEPT ![c] = [f EXCEPT !.pc = "done", !.status = -EINVAL]]
            /\ rt' = TripAtEntry(c, f)
            /\ UNCHANGED <<dev, fdtab>>
       ELSE \E o \in OpenOutcomes(fdtab, device_path, "O_RDONLY") :
              /\ call' = [call EXCEPT ![c] = AfterOpen(f, o, ReadOpenStatus(o.errno))]
              /\ fdtab' = Install(fdtab, c, o, "O_RDONLY")
              /\ rt' = TripAtEntry(c, f)
              /\ UNCHANGED dev

\* ochrance_nvme_write_block, lines 73-76.
WriteBlockCall(c, device_path, lba, buffer, block_size) ==
  /\ call[c].pc = "idle"
  /\ LET f == Entry("write_block", device_path, lba, buffer, block_size) IN
     IF WriteArgsInvalid(buffer, block_size)
       THEN /\ call' = [call EXCEPT ![c] = [f EXCEPT !.pc = "done", !.status = -EINVAL]]
            /\ rt' = TripAtEntry(c, f)
            /\ UNCHANGED <<dev, fdtab>>
       ELSE \E o \in OpenOutcomes(fdtab, device_path, "O_WRONLY") :
              /\ call' = [call EXCEPT ![c] = AfterOpen(f, o, WriteOpenStatus(o.errno))]
              /\ fdtab' = Install(fdtab, c, o, "O_WRONLY")
              /\ rt' = TripAtEntry(c, f)
              /\ UNCHANGED dev

\* ochrance_nvme_read_smart, lines 37-45: the Get Log Page admin command.
SmartIoctl(c) ==
  LET f == call[c] IN
  /\ f.pc = "xfer" /\ f.op = "read_smart"
  /\ \E o \in IoctlOutcomes(fdtab, f.fd, f.buffer) :
       call' = [call EXCEPT ![c] =
                  [f EXCEPT !.pc = "close", !.ret = o.ret, !.buffer = o.info,
                            !.errno = IF o.ret < 0 THEN o.errno ELSE @,
                            !.cause = IF o.ret < 0 THEN o.errno ELSE @,
                            !.xfers = @ + 1]]
  /\ UNCHANGED <<dev, fdtab, rt>>

\* ochrance_nvme_read_block, lines 60-61.
ReadPread(c) ==
  LET f == call[c]
      offset == ReadOffset(f.lba, f.block_size)
  IN
  /\ f.pc = "xfer" /\ f.op = "read_block"
  /\ \E o \in PreadOutcomes(fdtab, f.fd, f.block_size, offset, dev) :
       /\ call' = [call EXCEPT ![c] =
                     [f EXCEPT !.pc = "close", !.offset = offset, !.n = o.n,
                               !.buffer = Buf([i \in 1..Len(f.buffer.bytes) |->
                                                 IF i <= o.n THEN o.data[i]
                                                 ELSE f.buffer.bytes[i]]),
                               !.errno = IF o.n < 0 THEN o.errno ELSE @,
                               !.cause = IF o.n < 0 THEN o.errno ELSE @,
                               !.xfers = @ + 1]]
       /\ rt' = TripAfterRead(c, f, o.n, o.data)
  /\ UNCHANGED <<dev, fdtab>>

\* ochrance_nvme_write_block, lines 78-79.
WritePwrite(c) ==
  LET f == call[c]
      offset == WriteOffset(f.lba, f.block_size)
  IN
  /\ f.pc = "xfer" /\ f.op = "write_block"
  /\ \E o \in PwriteOutcomes(fdtab, f.fd, f.buffer.bytes, f.block_size, offset, dev) :
       /\ call' = [call EXCEPT ![c] =
                     [f EXCEPT !.pc = "close", !.offset = offset, !.n = o.n,
                               !.errno = IF o.n < 0 THEN o.errno ELSE @,
                               !.cause = IF o.n < 0 THEN o.errno ELSE @,
                               !.xfers = @ + 1]]
       /\ dev' = o.store
       /\ rt' = TripAfterWrite(c, f, o.n)
  /\ UNCHANGED fdtab

\* The status the function returns when errno holds the given value.
StatusOf(f, errno) ==
  CASE f.op = "read_smart"  -> SmartStatus(f.ret, errno)
    [] f.op = "read_block"  -> ReadStatus(f.n, f.block_size, errno)
    [] f.op = "write_block" -> WriteStatus(f.n, f.block_size, errno)

\* The frame and the descriptor table after close(fd) returned, or after
\* close was skipped, with the status the function then returns.
Closing(c, f, closes) ==
  IF closes
    THEN \E o \in CloseOutcomes(fdtab, f.fd) :
           LET errno == IF o.r < 0 THEN o.errno ELSE f.errno IN
           /\ call' = [call EXCEPT ![c] =
                         [f EXCEPT !.pc = "done", !.errno = errno,
                                   !.status = StatusOf(f, errno), !.closes = @ + 1,
                                   !.closed = IF FdOpen(fdtab, f.fd)
                                                THEN fdtab[f.fd].owner ELSE "none"]]
           /\ fdtab' = Release(fdtab, f.fd)
    ELSE /\ call' = [call EXCEPT ![c] =
                       [f EXCEPT !.pc = "done", !.status = StatusOf(f, f.errno)]]
         /\ fdtab' = fdtab

\* ochrance_nvme_read_smart, lines 46-48.
SmartClose(c) ==
  LET f == call[c] IN
  /\ f.pc = "close" /\ f.op = "read_smart"
  /\ Closing(c, f, SmartCloses(f.ret))
  /\ UNCHANGED <<dev, rt>>

\* ochrance_nvme_read_block, lines 62-66.
ReadClose(c) ==
  LET f == call[c] IN
  /\ f.pc = "close" /\ f.op = "read_block"
  /\ Closing(c, f, ReadCloses(f.n))
  /\ UNCHANGED <<dev, rt>>

\* ochrance_nvme_write_block, lines 80-84.
WriteClose(c) ==
  LET f == call[c] IN
  /\ f.pc = "close" /\ f.op = "write_block"
  /\ Closing(c, f, WriteCloses(f.n))
  /\ UNCHANGED <<dev, rt>>

\* The function has returned; the caller takes the status and the thread
\* is free to make its next call.
Return(c) ==
  /\ call[c].pc = "done"
  /\ call' = [call EXCEPT ![c] = IdleFrame]
  /\ UNCHANGED <<dev, fdtab, rt>>

(* --------------------------- specifications --------------------------- *)

Paths == {NullPath, Missing, Device}
LBAs == {U64(0), U64(1), U64(10), Pow2(52), Pow2(63)}
BlockSizes == {0, 1, 2, 4096}
SmartBuffers == {NullBuf, Buf(<<0>>)}
ReadBuffers(block_size) == {NullBuf, Buf([i \in 1..Tracked(block_size) |-> 0])}
WriteBuffers(block_size) == {NullBuf} \cup {Buf(b) : b \in [1..Tracked(block_size) -> Byte]}

Quiet == \A d \in Callers : call[d].pc = "idle"

\* Calls from either thread, one at a time, over the full input sets.
Next ==
  \E c \in Callers :
    \/ Quiet /\ \E p \in Paths, i \in SmartBuffers : ReadSmartCall(c, p, i)
    \/ Quiet /\ \E p \in Paths, l \in LBAs, s \in BlockSizes :
                  \E b \in ReadBuffers(s) : ReadBlockCall(c, p, l, b, s)
    \/ Quiet /\ \E p \in Paths, l \in LBAs, s \in BlockSizes :
                  \E b \in WriteBuffers(s) : WriteBlockCall(c, p, l, b, s)
    \/ SmartIoctl(c)
    \/ ReadPread(c)
    \/ WritePwrite(c)
    \/ SmartClose(c)
    \/ ReadClose(c)
    \/ WriteClose(c)
    \/ Return(c)

Spec == Init /\ [][Next]_vars

ConcPaths == {Missing, Device}
ConcLBAs == {U64(0)}
ConcSizes == {2}
ConcReadBuffers(block_size) == {Buf([i \in 1..Tracked(block_size) |-> 0])}
ConcWriteBuffers(block_size) == {Buf([i \in 1..Tracked(block_size) |-> 1])}

\* Calls from both threads, overlapping in every order, over narrow inputs.
NextConc ==
  \E c \in Callers :
    \/ \E p \in ConcPaths : ReadSmartCall(c, p, Buf(<<0>>))
    \/ \E p \in ConcPaths, l \in ConcLBAs, s \in ConcSizes :
         \E b \in ConcReadBuffers(s) : ReadBlockCall(c, p, l, b, s)
    \/ \E p \in ConcPaths, l \in ConcLBAs, s \in ConcSizes :
         \E b \in ConcWriteBuffers(s) : WriteBlockCall(c, p, l, b, s)
    \/ SmartIoctl(c)
    \/ ReadPread(c)
    \/ WritePwrite(c)
    \/ SmartClose(c)
    \/ ReadClose(c)
    \/ WriteClose(c)
    \/ Return(c)

SpecConc == Init /\ [][NextConc]_vars

(* ------------------------------ claims -------------------------------- *)

IsBlockOp(f) == f.op \in {"read_block", "write_block"}

Owned(c) == {fd \in Fds : fdtab[fd].owner = c}

\* C1: a call opens at most one device handle; while it is between its open
\* and its close it holds exactly the handle it opened; when it has returned,
\* on every exit path, it has closed that handle, it has closed nothing a
\* different call opened, and once no call is running no handle is open.
HandleScopedToCall ==
  /\ \A c \in Callers :
       LET f == call[c] IN
       /\ f.opens <= 1
       /\ f.closes <= f.opens
       /\ f.pc \in {"xfer", "close"} => Owned(c) = {f.fd}
       /\ f.pc \in {"idle", "done"} => Owned(c) = {}
       /\ f.pc = "done" => /\ f.closes = (IF f.fd >= 0 THEN 1 ELSE 0)
                           /\ f.closes = 1 => f.closed = c
  /\ (\A c \in Callers : call[c].pc \in {"idle", "done"})
       => \A fd \in Fds : fdtab[fd] = NoFile

\* Two calls overlap: one has returned after a failed transfer and has closed
\* the second descriptor, the other still holds the first.
HandleScopedWitness ==
  \E c, d \in Callers :
    /\ c # d
    /\ call[c].pc = "done" /\ call[c].op = "write_block" /\ call[c].n < 0
    /\ call[c].fd = 4 /\ call[c].closes = 1
    /\ call[d].pc = "close" /\ call[d].op = "read_block" /\ call[d].fd = 3
    /\ call[d].n >= 0 /\ call[d].n < call[d].block_size

\* C2: read_block and write_block called with block_size = 0 or a null
\* buffer return -EINVAL, for any device path and lba, and issue no open, no
\* transfer and no close.
InvalidBlockArgsRejected ==
  \A c \in Callers :
    LET f == call[c] IN
    (IsBlockOp(f) /\ (f.buf0.null \/ f.block_size = 0))
      => /\ f.pc = "done"
         /\ f.status = -EINVAL
         /\ f.opens = 0 /\ f.xfers = 0 /\ f.closes = 0

InvalidBlockArgsWitness ==
  \E c \in Callers :
    /\ call[c].pc = "done" /\ call[c].op = "read_block"
    /\ call[c].device_path = Device /\ ~call[c].buf0.null
    /\ call[c].block_size = 0 /\ call[c].status = -EINVAL

\* C3: read_block and write_block return 0 exactly when their one transfer
\* moved block_size bytes; a transfer that moved fewer bytes makes the call
\* return -EIO; no call issues a second transfer.
SuccessIffFullTransfer ==
  \A c \in Callers :
    LET f == call[c] IN
    IsBlockOp(f) =>
      /\ f.xfers <= 1
      /\ f.pc = "done" =>
           /\ f.status = 0 <=> (f.xfers = 1 /\ f.n = f.block_size)
           /\ (f.xfers = 1 /\ f.n >= 0 /\ f.n < f.block_size) => f.status = -EIO

\* A read of a two-byte block that moved one byte has returned -EIO.
ShortTransferWitness ==
  \E c \in Callers :
    /\ call[c].pc = "done" /\ call[c].op = "read_block"
    /\ call[c].block_size = 2 /\ call[c].n = 1 /\ call[c].status = -EIO

\* C4: the byte offset handed to pread / pwrite is the mathematical product
\* lba x block_size: not wrapped modulo 2^64 and not negative as an off_t.
OffsetIsProduct ==
  \A c \in Callers :
    LET f == call[c] IN
    (IsBlockOp(f) /\ f.xfers = 1)
      => /\ Widen(f.offset) = MulFull(f.lba, U64(f.block_size))
         /\ ~IsNeg(f.offset)

ValidArgs(f) == ~f.buf0.null /\ (IsBlockOp(f) => f.block_size > 0)

\* C5: each of the three operations, called with a null device path and
\* otherwise valid arguments, returns -EINVAL and does not hand the null path
\* to open.
NullPathRejected ==
  \A c \in Callers :
    LET f == call[c] IN
    (f.pc = "done" /\ f.op # "none" /\ f.device_path = NullPath /\ ValidArgs(f))
      => f.status = -EINVAL /\ f.opens = 0

\* C6: read_smart_log returns 0 only if the Get Log Page command succeeded:
\* when the ioctl returned a negative value or a non-zero device status the
\* call does not return 0.
SmartSuccessOnlyIfCommandSucceeded ==
  \A c \in Callers :
    LET f == call[c] IN
    (f.pc = "done" /\ f.op = "read_smart" /\ f.xfers = 1 /\ f.ret # 0)
      => f.status # 0

ReadOnlyTargetDistinct ==
  \A c \in Callers :
    LET f == call[c] IN
    (f.pc = "done" /\ f.op = "write_block" /\ f.cause = EROFS)
      => f.status = -EROFS

\* C9: a read_block that succeeds, then a write_block by the same caller of
\* the bytes just read to the same block that succeeds, then a read_block of
\* that block that succeeds, with no call by anyone in between: the second
\* read delivers the bytes of the first, and the store is, after the write
\* and after the second read, what it was at the first read.
RoundTripIdentity ==
  /\ rt.stage \in {2, 3} => dev = rt.dev0
  /\ rt.stage = 3 =>
       /\ rt.last = rt.first
       /\ call[rt.who].pc = "done" => /\ call[rt.who].status = 0
                                      /\ call[rt.who].buffer.bytes = rt.first

\* The sequence has completed on the second block of a store whose two
\* blocks differ.
RoundTripWitness ==
  /\ rt.stage = 3
  /\ rt.lba = U64(1) /\ rt.block_size = 1
  /\ call[rt.who].pc = "done" /\ call[rt.who].status = 0
  /\ dev[1] # dev[2]

\* C10: when the pread, pwrite or admin ioctl of a call failed with errno E,
\* the call returns -E, whatever the close that follows it returned.
TransferCausePreserved ==
  \A c \in Callers :
    LET f == call[c] IN
    (f.pc = "done" /\ f.xfers = 1 /\ f.cause # 0) => f.status = -f.cause

====
